---- MODULE Spec2Model ----
(***************************************************************************)
(* Model of release.py: the DownloadBuffer streaming adapter and the       *)
(* release synchronization script that uses it.                            *)
(*                                                                         *)
(* Byte strings are sequences of small naturals.  Percentages are kept     *)
(* exactly, as integers in units of 1/_size of a percentage point, so      *)
(* that "progress = p" stands for the value p / _size percent and the      *)
(* cap 100 is 100 * _size (float rounding is not modelled).                *)
(***************************************************************************)
EXTENDS Integers, Sequences, FiniteSets, TLC

\* ---------------------------------------------------------------- bounds
MaxLen == 3
BigLen == 120
MaxReads == 4

\* ------------------------------------------------------- byte-string helpers
Min(a, b) == IF a <= b THEN a ELSE b

Bytes == {0, 1}

RECURSIVE join(_)
\* b''.join(chunks)
join(cs) == IF cs = <<>> THEN <<>> ELSE Head(cs) \o join(Tail(cs))

\* buff[:size]
Take(b, n) == SubSeq(b, 1, Min(n, Len(b)))
\* buff[size:]
Drop(b, n) == SubSeq(b, Min(n, Len(b)) + 1, Len(b))

IsPrefix(a, b) == Len(a) <= Len(b) /\ SubSeq(b, 1, Len(a)) = a

\* -------------------------------------------------------------- the source
RECURSIVE Partitions(_)
\* every way the response body p can arrive as a sequence of non-empty chunks
Partitions(p) ==
    IF p = <<>> THEN {<<>>}
    ELSE UNION {{<<SubSeq(p, 1, k)>> \o r : r \in Partitions(SubSeq(p, k + 1, Len(p)))}
                : k \in 1..Len(p)}

RECURSIVE iter_content(_, _)
\* the body p cut into chunks of c bytes, the last one possibly shorter
iter_content(p, c) ==
    IF p = <<>> THEN <<>>
    ELSE <<Take(p, c)>> \o iter_content(Drop(p, c), c)

SmallPayloads == UNION {[1..n -> Bytes] : n \in 0..MaxLen}
BigPayload == [i \in 1..BigLen |-> i]
HalfRead == BigLen \div 2
ChunkSizes == {BigLen \div 3, HalfRead, BigLen}

Sources ==
    UNION {Partitions(p) : p \in SmallPayloads}
    \cup {iter_content(BigPayload, c) : c \in ChunkSizes}

\* the sizes a consumer asks for, given the payload it is reading
ReadSizes(p) ==
    IF Len(p) <= MaxLen THEN -1..(MaxLen + 1)
    ELSE {-1, 0, 1, HalfRead, Len(p) + 1}

\* --------------------------------------------------------------- the hasher
RECURSIVE Pow(_, _)
\* b^k modulo 32749, by repeated squaring
Pow(b, k) ==
    IF k = 0 THEN 1
    ELSE LET h == Pow(b, k \div 2)
         IN  IF k % 2 = 0 THEN (h * h) % 32749 ELSE (((h * h) % 32749) * b) % 32749

RECURSIVE Poly(_)
\* sum of (bs[i] + 1) * 31^(Len(bs) - i) modulo 32749, by halving
Poly(bs) ==
    IF bs = <<>> THEN 0
    ELSE IF Len(bs) = 1 THEN bs[1] + 1
    ELSE LET m == Len(bs) \div 2
             l == SubSeq(bs, 1, m)
             r == SubSeq(bs, m + 1, Len(bs))
         IN  (Poly(l) * Pow(31, Len(r)) + Poly(r)) % 32749

\* stand-in for SHA-256: a seeded polynomial hash of the whole byte string
Sha256(bs) == (7 * Pow(31, Len(bs)) + Poly(bs)) % 32749

\* a hasher that is re-created for every chunk instead of being updated
HasherUpdateReset(hasher, chunk) == <<chunk>>

\* hasher.update(chunk): the hasher state is the list of chunks fed so far
HasherUpdate(hasher, chunk) == Append(hasher, chunk)

\* ------------------------------------------------------------------ strings
\* Text is a sequence of one-character strings; Ord gives the code points
\* that Python's string comparison orders by.
Ord(c) ==
    CASE c = "\n" -> 10
      [] c = " " -> 32
      [] c = "-" -> 45
      [] c = "." -> 46
      [] c = "0" -> 48 [] c = "1" -> 49 [] c = "2" -> 50 [] c = "3" -> 51
      [] c = "4" -> 52 [] c = "5" -> 53 [] c = "6" -> 54 [] c = "7" -> 55
      [] c = "8" -> 56 [] c = "9" -> 57
      [] c = "v" -> 118

RECURSIVE StrLess(_, _)
\* a < b on Python strings: lexicographic by code point, a proper prefix first
StrLess(a, b) ==
    IF b = <<>> THEN FALSE
    ELSE IF a = <<>> THEN TRUE
    ELSE IF Head(a) # Head(b) THEN Ord(Head(a)) < Ord(Head(b))
    ELSE StrLess(Tail(a), Tail(b))

IsSpace(c) == c \in {" ", "\n"}

RECURSIVE lstrip(_)
lstrip(t) == IF t # <<>> /\ IsSpace(Head(t)) THEN lstrip(Tail(t)) ELSE t

RECURSIVE rstrip(_)
rstrip(t) ==
    IF t # <<>> /\ IsSpace(t[Len(t)]) THEN rstrip(SubSeq(t, 1, Len(t) - 1)) ELSE t

\* str.strip()
strip(t) == rstrip(lstrip(t))

RECURSIVE re_sub_dash_only(_)
\* the substitution with the pattern '-' alone: zeros are kept
re_sub_dash_only(t) ==
    IF t = <<>> THEN <<>>
    ELSE IF Head(t) = "-" THEN <<".">> \o re_sub_dash_only(Tail(t))
    ELSE <<Head(t)>> \o re_sub_dash_only(Tail(t))

RECURSIVE re_sub(_)
\* re.sub(r'-0?', '.', t): each '-' and one '0' right after it, if there is
\* one, become a single '.'
re_sub(t) ==
    IF t = <<>> THEN <<>>
    ELSE IF Head(t) = "-"
         THEN IF Len(t) >= 2 /\ t[2] = "0"
              THEN <<".">> \o re_sub(SubSeq(t, 3, Len(t)))
              ELSE <<".">> \o re_sub(Tail(t))
    ELSE <<Head(t)>> \o re_sub(Tail(t))

\* semver = 'v' + re.sub(r'-0?', '.', new_version)
Semver(version) == <<"v">> \o re_sub(version)

\* ------------------------------------------------------- the upstream feed
V_2023_05_03 == <<"2", "0", "2", "3", "-", "0", "5", "-", "0", "3">>
V_2023_05_03_1 == <<"2", "0", "2", "3", "-", "0", "5", "-", "0", "3", "-", "1">>
V_2023_12_11 == <<"2", "0", "2", "3", "-", "1", "2", "-", "1", "1">>
Versions == {V_2023_05_03, V_2023_05_03_1, V_2023_12_11}

\* the image upstream declares, and a transfer of it that went wrong
Image == <<1, 0, 1>>
Corrupted == <<1, 0>>
Transfers == {Image, Corrupted}

\* release['sha256']
download_hash == Sha256(Image)

\* ---------------------------------------------------- the release notes
\* str.startswith
startswith(t, p) == Len(p) <= Len(t) /\ SubSeq(t, 1, Len(p)) = p

RECURSIVE TakeAllLines(_)
\* every remaining line, indented or not
TakeAllLines(lines) ==
    IF lines = <<>> THEN <<>>
    ELSE Head(lines) \o <<"\n">> \o TakeAllLines(Tail(lines))

RECURSIVE TakeIndented(_)
\* lines 136-140: lines are popped and appended, each with '\n', until one
\* does not start with a space
TakeIndented(lines) ==
    IF lines = <<>> THEN <<>>
    ELSE IF ~startswith(Head(lines), <<" ">>) THEN <<>>
    ELSE Head(lines) \o <<"\n">> \o TakeIndented(Tail(lines))

\* lines 134-140: only the first line of the text is compared to the version
ExtractNotes(lines, version) ==
    IF startswith(strip(Head(lines)), version)
    THEN TakeIndented(Tail(lines))
    ELSE <<>>

Header(version) == version \o <<":">>
V_2023_02_21 == <<"2", "0", "2", "3", "-", "0", "2", "-", "2", "1">>
V_2024_03_15 == <<"2", "0", "2", "4", "-", "0", "3", "-", "1", "5">>

\* the notes upstream can serve for version v (one section per version, an
\* unindented header and indented detail lines): v's section first, v's
\* section behind that of another version, or no section for v
NotesTexts(v) ==
    {<<Header(v), <<" ", "a">>, <<" ", "b">>, Header(V_2023_02_21), <<" ", "c">>>>,
     <<Header(V_2024_03_15), <<" ", "n">>, Header(v), <<" ", "a">>, <<" ", "b">>,
       Header(V_2023_02_21), <<" ", "c">>>>,
     <<Header(V_2023_02_21), <<" ", "c">>>>}

\* ---------------------------------------------------------------- bounds
MaxRuns == 2

VARIABLES
    chunks,         \* the response body as the chunks the source yields
    self,           \* the DownloadBuffer's fields
    log,            \* percentages emitted by log.info in report, in order
    call,           \* the last call of read: its argument and outcome
    out,            \* concatenation of everything read has returned
    nreads,         \* number of calls of read so far
    neg_used,       \* some call so far had size < 0
    eof_hit,        \* some call so far returned the depleted accumulator
    new_version,    \* release['releaseDate'] of the upstream feed
    notes_text,     \* the lines of the upstream release notes
    start,          \* the repository and the releases when this run started
    repo,           \* the git repository: VERSION file, HEAD, origin, tags
    gh_repo,        \* the hosted releases, by tag name, with their assets
    pc,             \* the script's position
    repo_version,   \* script variables, by their names in the script
    repo_changed,
    semver,
    tag,
    release,
    assets,
    image_asset,
    buffer_digest,  \* download_buffer.digest() after the upload
    exit_code,      \* the process's exit status, once it has exited
    ending,         \* how it exited: "die", "exception" or "end"
    writes,         \* the writes of the current run, in order
    history         \* exit status and writes of the runs before this one

bufvars == <<chunks, self, log, call, out, nreads, neg_used, eof_hit>>
fixed == <<new_version, notes_text, start>>
world == <<fixed, repo, gh_repo>>
locals == <<repo_version, repo_changed, semver, tag, release, assets,
            image_asset, buffer_digest>>
exit == <<exit_code, ending>>
flowvars == <<world, pc, locals, exit, writes, history>>
vars == <<bufvars, flowvars>>

\* the payload P and the content-length header of the response
Payload == join(chunks)
content_length == Len(Payload)

\* ---------------------------------------------------------- DownloadBuffer
\* __init__
NewBuffer ==
    [size |-> 0,
     chunk_iter |-> [open |-> FALSE, rest |-> <<>>],
     buff |-> <<>>,
     hasher |-> <<>>,
     progress |-> 0,
     last_progress |-> 0]

\* the progress sum without the cap at 100
NewProgUncapped(progress, sz, total) == progress + sz * 100

\* min(self._progress + (size / self._size * 100), 100)
NewProg(progress, sz, total) == Min(progress + sz * 100, 100 * total)

\* a report on every advance, however small
ShouldReportAnyAdvance(new_prog, last_progress, total) == new_prog - last_progress > 0

\* new_prog - self._last_progress >= 1
ShouldReport(new_prog, last_progress, total) == new_prog - last_progress >= total

\* the nested function report(size); exc: the division by _size raised
report(s, lg, sz) ==
    IF s.size = 0
    THEN [self |-> s, log |-> lg, exc |-> TRUE]
    ELSE LET new_prog == NewProg(s.progress, sz, s.size)
             emit == ShouldReport(new_prog, s.last_progress, s.size)
         IN  [self |-> [s EXCEPT !.progress = new_prog,
                                 !.last_progress = IF emit THEN new_prog ELSE @],
              log |-> IF emit THEN Append(lg, new_prog) ELSE lg,
              exc |-> FALSE]

\* the lazy connection at the top of read
Connect(s) ==
    IF ~s.chunk_iter.open
    THEN [s EXCEPT !.size = content_length,
                   !.chunk_iter = [open |-> TRUE, rest |-> chunks],
                   !.progress = 0]
    ELSE s

\* the branch size < 0
ReadAll(s, lg) ==
    LET buff == join(s.chunk_iter.rest)
        r == report([s EXCEPT !.chunk_iter.rest = <<>>], lg, Len(buff))
    IN  [self |-> r.self, log |-> r.log, exc |-> r.exc,
         ret |-> buff, fetched |-> buff, eof |-> FALSE]

\* the branch len(self._buff) >= size
ReadSlice(s, lg, size) ==
    LET return_buff == Take(s.buff, size)
        r == report([s EXCEPT !.buff = Drop(s.buff, size)], lg, Len(return_buff))
    IN  [self |-> r.self, log |-> r.log, exc |-> r.exc,
         ret |-> return_buff, fetched |-> <<>>, eof |-> FALSE]

\* what the end-of-stream return leaves in the accumulator
BuffAfterEof(buff) == buff

\* the end-of-stream return without its call of report
ReadEofNoReport(s, lg, fetched) ==
    [self |-> s, log |-> lg, exc |-> FALSE,
     ret |-> s.buff, fetched |-> fetched, eof |-> TRUE]

\* the return inside the loop, when next(self._chunk_iter, b'') is empty
ReadEof(s, lg, fetched) ==
    LET r == report(s, lg, Len(s.buff))
    IN  [self |-> [r.self EXCEPT !.buff = BuffAfterEof(@)],
         log |-> r.log, exc |-> r.exc,
         ret |-> s.buff, fetched |-> fetched, eof |-> TRUE]

RECURSIVE Fill(_, _, _)
\* the loop "while len(self._buff) < size"; eof: it left through the return
Fill(s, size, fetched) ==
    IF Len(s.buff) >= size
    THEN [self |-> s, fetched |-> fetched, eof |-> FALSE]
    ELSE IF s.chunk_iter.rest = <<>>
    THEN [self |-> s, fetched |-> fetched, eof |-> TRUE]
    ELSE LET next_chunk == Head(s.chunk_iter.rest)
         IN  Fill([s EXCEPT !.chunk_iter.rest = Tail(@),
                            !.hasher = HasherUpdate(@, next_chunk),
                            !.buff = @ \o next_chunk],
                  size, fetched \o next_chunk)

RECURSIVE read(_, _, _)
\* DownloadBuffer.read(size)
read(s0, lg, size) ==
    LET s == Connect(s0)
    IN  IF size < 0 THEN ReadAll(s, lg)
        ELSE IF Len(s.buff) >= size THEN ReadSlice(s, lg, size)
        ELSE LET f == Fill(s, size, <<>>)
             IN  IF f.eof THEN ReadEof(f.self, lg, f.fetched)
                 ELSE LET r == read(f.self, lg, size)
                      IN  [r EXCEPT !.fetched = f.fetched \o @]

\* DownloadBuffer.digest()
digest(s) == Sha256(join(s.hasher))

\* ------------------------------------------------------------ buffer actions
NoCall == [size |-> 0, ret |-> <<>>, exc |-> FALSE, eof |-> FALSE,
           fetched |-> <<>>, buff_before |-> <<>>, progress_before |-> 0,
           last_before |-> 0, log_before |-> <<>>]

InitBuffer ==
    /\ chunks \in Sources
    /\ self = NewBuffer
    /\ log = <<>>
    /\ call = NoCall
    /\ out = <<>>
    /\ nreads = 0
    /\ neg_used = FALSE
    /\ eof_hit = FALSE

\* one call download_buffer.read(size) by the consumer
Read(size) ==
    /\ nreads < MaxReads
    /\ LET r == read(self, log, size)
       IN  /\ self' = r.self
           /\ log' = r.log
           /\ call' = [size |-> size,
                       ret |-> IF r.exc THEN <<>> ELSE r.ret,
                       exc |-> r.exc, eof |-> r.eof, fetched |-> r.fetched,
                       buff_before |-> self.buff,
                       progress_before |-> self.progress,
                       last_before |-> self.last_progress,
                       log_before |-> log]
           /\ out' = IF r.exc THEN out ELSE out \o r.ret
           /\ eof_hit' = (eof_hit \/ (r.eof /\ ~r.exc))
    /\ nreads' = nreads + 1
    /\ neg_used' = (neg_used \/ size < 0)
    /\ UNCHANGED <<chunks, flowvars>>

\* ------------------------------------------------- the synchronization flow
NoFile == [exists |-> FALSE, text |-> <<>>]
File(t) == [exists |-> TRUE, text |-> t]

ImageAsset(body) ==
    [name |-> "image.zip", content_type |-> "application/zip",
     digest |-> Sha256(body)]
HashAsset ==
    [name |-> "image.zip.sha256", content_type |-> "text/plain",
     digest |-> download_hash]

\* the image lookup with a content type the upload never sets
IsImageAssetWrongType(a) == a.content_type = "application/octet-stream"

\* a.content_type == 'application/zip'
IsImageAsset(a) == a.content_type = "application/zip"

\* the checksum lookup by the whole name instead of its ending
IsHashAssetExactName(a) == a.name = "sha256"

\* a.name.endswith('sha256')
IsHashAsset(a) == a.name \in {"image.zip.sha256"}

\* the digest comparison turned around
DigestMatches(d, h) == d = h

\* download_buffer.digest() != download_hash
DigestMismatch(d, h) == d # h

\* die(msg, code): log.critical, then sys.exit(code)
die(code) ==
    /\ pc' = "exited"
    /\ exit_code' = code
    /\ ending' = "die"

\* the script runs off its last line: exit status 0
finish ==
    /\ pc' = "exited"
    /\ exit_code' = 0
    /\ ending' = "end"

\* an uncaught exception: traceback, exit status 1
raise ==
    /\ pc' = "exited"
    /\ exit_code' = 1
    /\ ending' = "exception"

Wrote(w) == writes' = writes \o w

NoLocals ==
    /\ repo_version = <<>>
    /\ repo_changed = FALSE
    /\ semver = <<>>
    /\ tag = FALSE
    /\ release = FALSE
    /\ assets = {}
    /\ image_asset = {}
    /\ buffer_digest = Sha256(<<>>)

FlowIdle ==
    /\ new_version = <<>>
    /\ notes_text = <<>>
    /\ repo = [file |-> NoFile, head |-> NoFile, origin |-> NoFile,
               tags |-> {}, origin_tags |-> {}]
    /\ gh_repo = <<>>
    /\ start = [repo |-> repo, gh_repo |-> gh_repo]
    /\ pc = "idle"
    /\ NoLocals
    /\ exit_code = 0
    /\ ending = ""
    /\ writes = <<>>
    /\ history = <<>>

BufferIdle ==
    /\ chunks = <<>>
    /\ self = NewBuffer
    /\ log = <<>>
    /\ call = NoCall
    /\ out = <<>>
    /\ nreads = 0
    /\ neg_used = FALSE
    /\ eof_hit = FALSE

\* the states a run can start in: any upstream version, any committed
\* marker, any set of tags, and the release of this version absent or
\* present with any of its assets
InitFlow ==
    /\ BufferIdle
    /\ new_version \in Versions
    /\ notes_text \in NotesTexts(new_version)
    /\ \E f \in {NoFile} \cup {File(v) : v \in Versions}
                 \cup {File(v \o <<"\n">>) : v \in Versions},
          ts \in SUBSET {Semver(v) : v \in Versions} :
          repo = [file |-> f, head |-> f, origin |-> f,
                  tags |-> ts, origin_tags |-> ts]
    /\ \/ gh_repo = <<>>
       \/ \E img \in {{}} \cup {{ImageAsset(b)} : b \in Transfers},
             hsh \in {{}, {HashAsset}} :
             gh_repo = (Semver(new_version) :>
                          [title |-> new_version, body |-> <<>>,
                           assets |-> img \cup hsh])
    /\ start = [repo |-> repo, gh_repo |-> gh_repo]
    /\ pc = "read_version"
    /\ NoLocals
    /\ exit_code = 0
    /\ ending = ""
    /\ writes = <<>>
    /\ history = <<>>

\* lines 91-96: open('VERSION').read().strip(), '' when there is no file
ReadVersion ==
    /\ pc = "read_version"
    /\ repo_version' = IF repo.file.exists THEN strip(repo.file.text) ELSE <<>>
    /\ pc' = "check_newer"
    /\ UNCHANGED <<bufvars, world, repo_changed, semver, tag, release, assets,
                   image_asset, buffer_digest, exit, writes, history>>

\* the early exit with die's default status
CheckNewerExitOne ==
    /\ pc = "check_newer"
    /\ IF StrLess(new_version, repo_version)
       THEN die(1)
       ELSE pc' = "update" /\ UNCHANGED exit
    /\ UNCHANGED <<bufvars, world, locals, writes, history>>

\* lines 98-99
CheckNewer ==
    /\ pc = "check_newer"
    /\ IF StrLess(new_version, repo_version)
       THEN die(0)
       ELSE pc' = "update" /\ UNCHANGED exit
    /\ UNCHANGED <<bufvars, world, locals, writes, history>>

\* lines 101-106: the VERSION file is overwritten when upstream is newer
WriteVersion ==
    /\ pc = "update"
    /\ IF StrLess(repo_version, new_version)
       THEN /\ repo' = [repo EXCEPT !.file = File(new_version)]
            /\ repo_changed' = TRUE
            /\ Wrote(<<"write_version">>)
            /\ pc' = "commit"
       ELSE /\ repo_changed' = FALSE
            /\ pc' = "tag"
            /\ UNCHANGED <<repo, writes>>
    /\ UNCHANGED <<bufvars, fixed, gh_repo, repo_version, semver, tag,
                   release, assets, image_asset, buffer_digest, exit,
                   history>>

\* lines 107-108: repo.index.add, repo.index.commit
Commit ==
    /\ pc = "commit"
    /\ repo' = [repo EXCEPT !.head = repo.file]
    /\ Wrote(<<"commit">>)
    /\ pc' = "push"
    /\ UNCHANGED <<bufvars, fixed, gh_repo, locals, exit, history>>

\* a push that reaches nobody
PushNowhere ==
    /\ pc = "push"
    /\ Wrote(<<"push">>)
    /\ pc' = "tag"
    /\ UNCHANGED <<bufvars, world, locals, exit, history>>

\* line 109: repo.remotes.origin.push()
Push ==
    /\ pc = "push"
    /\ repo' = [repo EXCEPT !.origin = repo.head]
    /\ Wrote(<<"push">>)
    /\ pc' = "tag"
    /\ UNCHANGED <<bufvars, fixed, gh_repo, locals, exit, history>>

\* the tag lookup without the inconsistent-state exit
LookupTagNoDie ==
    /\ pc = "tag"
    /\ semver' = Semver(new_version)
    /\ tag' = (Semver(new_version) \in repo.tags)
    /\ pc' = IF tag' THEN "release" ELSE "create_tag"
    /\ UNCHANGED <<bufvars, world, repo_version, repo_changed, release, assets,
                   image_asset, buffer_digest, exit, writes, history>>

\* lines 113-120: the tag name, its lookup, and the inconsistent-state exit
LookupTag ==
    /\ pc = "tag"
    /\ semver' = Semver(new_version)
    /\ tag' = (Semver(new_version) \in repo.tags)
    /\ IF tag' /\ repo_changed THEN die(1)
       ELSE /\ pc' = IF tag' THEN "release" ELSE "create_tag"
            /\ UNCHANGED exit
    /\ UNCHANGED <<bufvars, world, repo_version, repo_changed, release, assets,
                   image_asset, buffer_digest, writes, history>>

\* line 121: repo.create_tag(semver)
CreateTag ==
    /\ pc = "create_tag"
    /\ repo' = [repo EXCEPT !.tags = @ \cup {semver}]
    /\ tag' = TRUE
    /\ Wrote(<<"create_tag">>)
    /\ pc' = "push_tags"
    /\ UNCHANGED <<bufvars, fixed, gh_repo, repo_version, repo_changed,
                   semver, release, assets, image_asset, buffer_digest,
                   exit, history>>

\* line 122: repo.remotes.origin.push(tags=True)
PushTags ==
    /\ pc = "push_tags"
    /\ repo' = [repo EXCEPT !.origin_tags = @ \cup repo.tags]
    /\ Wrote(<<"push_tags">>)
    /\ pc' = "release"
    /\ UNCHANGED <<bufvars, fixed, gh_repo, locals, exit, history>>

\* lines 128-132: gh_repo.get_release(semver), None when it is unknown
GetRelease ==
    /\ pc = "release"
    /\ release' = (semver \in DOMAIN gh_repo)
    /\ pc' = IF release' THEN "assets" ELSE "create_release"
    /\ UNCHANGED <<bufvars, world, repo_version, repo_changed, semver, tag,
                   assets, image_asset, buffer_digest, exit, writes,
                   history>>

\* lines 133-141: gh_repo.create_git_release(semver, new_version, notes)
CreateRelease ==
    /\ pc = "create_release"
    /\ gh_repo' = (semver :> [title |-> new_version,
                              body |-> ExtractNotes(notes_text, new_version),
                              assets |-> {}]) @@ gh_repo
    /\ release' = TRUE
    /\ Wrote(<<"create_release">>)
    /\ pc' = "assets"
    /\ UNCHANGED <<bufvars, fixed, repo, repo_version, repo_changed,
                   semver, tag, assets, image_asset, buffer_digest, exit,
                   history>>

\* lines 143-146: the asset list is read once; the image asset is looked up
ListAssets ==
    /\ pc = "assets"
    /\ assets' = gh_repo[semver].assets
    /\ image_asset' = {a \in assets' : IsImageAsset(a)}
    /\ pc' = IF image_asset' = {} THEN "upload_image" ELSE "hash"
    /\ UNCHANGED <<bufvars, world, repo_version, repo_changed, semver, tag,
                   release, buffer_digest, exit, writes, history>>

\* lines 148-149: the download is streamed into a new asset 'image.zip';
\* the buffer's digest is the hash of the bytes that were transferred
UploadImage ==
    /\ pc = "upload_image"
    /\ \E body \in Transfers :
          /\ gh_repo' = [gh_repo EXCEPT ![semver].assets = @ \cup {ImageAsset(body)}]
          /\ image_asset' = {ImageAsset(body)}
          /\ buffer_digest' = Sha256(body)
    /\ Wrote(<<"upload_image">>)
    /\ pc' = "check_digest"
    /\ UNCHANGED <<bufvars, fixed, repo, repo_version, repo_changed,
                   semver, tag, release, assets, exit, history>>

\* line 150
CheckDigest ==
    /\ pc = "check_digest"
    /\ pc' = IF DigestMismatch(buffer_digest, download_hash)
             THEN "delete_asset" ELSE "hash"
    /\ UNCHANGED <<bufvars, world, locals, exit, writes, history>>

\* lines 151-152: image_asset.delete_asset(), then die
DeleteAsset ==
    /\ pc = "delete_asset"
    /\ gh_repo' = [gh_repo EXCEPT ![semver].assets = @ \ image_asset]
    /\ Wrote(<<"delete_asset">>)
    /\ die(1)
    /\ UNCHANGED <<bufvars, fixed, repo, locals, history>>

\* lines 154-155, and the normal end of the script when nothing is missing
LookupHashAsset ==
    /\ pc = "hash"
    /\ IF \E a \in assets : IsHashAsset(a)
       THEN finish
       ELSE pc' = "upload_hash" /\ UNCHANGED exit
    /\ UNCHANGED <<bufvars, world, locals, writes, history>>

\* lines 156-158: the checksum asset, then the normal end of the script
UploadHash ==
    /\ pc = "upload_hash"
    /\ gh_repo' = [gh_repo EXCEPT ![semver].assets = @ \cup {HashAsset}]
    /\ Wrote(<<"upload_hash">>)
    /\ finish
    /\ UNCHANGED <<bufvars, fixed, repo, locals, history>>

\* the script is started again, against the same upstream feed
Rerun ==
    /\ pc = "exited"
    /\ Len(history) + 1 < MaxRuns
    /\ history' = Append(history, [exit_code |-> exit_code, ending |-> ending,
                                   writes |-> writes, start |-> start])
    /\ start' = [repo |-> repo, gh_repo |-> gh_repo]
    /\ pc' = "read_version"
    /\ repo_version' = <<>>
    /\ repo_changed' = FALSE
    /\ semver' = <<>>
    /\ tag' = FALSE
    /\ release' = FALSE
    /\ assets' = {}
    /\ image_asset' = {}
    /\ buffer_digest' = Sha256(<<>>)
    /\ exit_code' = 0
    /\ ending' = ""
    /\ writes' = <<>>
    /\ UNCHANGED <<bufvars, new_version, notes_text, repo, gh_repo>>

\* a collaborator (git, the hosting platform, the network) fails at the
\* script's current position: the exception is not caught
Crash ==
    /\ pc \notin {"idle", "exited"}
    /\ raise
    /\ UNCHANGED <<bufvars, world, locals, writes, history>>

NextFlow ==
    \/ ReadVersion \/ CheckNewer \/ WriteVersion \/ Commit \/ Push
    \/ LookupTag \/ CreateTag \/ PushTags
    \/ GetRelease \/ CreateRelease
    \/ ListAssets \/ UploadImage \/ CheckDigest \/ DeleteAsset
    \/ LookupHashAsset \/ UploadHash
    \/ Rerun

SpecFlow == InitFlow /\ [][NextFlow]_vars

\* the flow where any step may fail instead
NextCrash == NextFlow \/ Crash

SpecCrash == InitFlow /\ [][NextCrash]_vars

\* the script is sequential: it always takes its next step
SpecFlowFair == SpecFlow /\ WF_vars(NextFlow)

\* ------------------------------------------------------------ buffer claims
Exhausted == self.chunk_iter.open /\ self.chunk_iter.rest = <<>>
OnePoint == self.size
Cap == 100 * self.size

\* C1: with non-negative read sizes only, the concatenation of the results
\* returned so far is a prefix of the payload P at every point of the
\* sequence, reads after the source is exhausted included.
CE_C1 == ~neg_used => IsPrefix(out, Payload)

\* C2: the read that returns the depleted accumulator at end-of-stream
\* clears it, so every later read(m) with m > 0 returns the empty string.
CE_C2 ==
    [][/\ call'.eof => self'.buff = <<>>
       /\ (eof_hit /\ call'.size > 0) => call'.ret = <<>>]_vars

\* C3: with non-negative read sizes only, once every source chunk has been
\* pulled the hasher has been fed exactly the source chunks, each once and in
\* source order, and digest() is the SHA-256 of P.
Thm_C3 ==
    (~neg_used /\ Exhausted)
        => (self.hasher = chunks /\ digest(self) = Sha256(Payload))

\* the source was pulled dry by several reads that do not line up with the
\* chunk boundaries (bytes of the last chunk are still in the accumulator)
Wit_C3 ==
    /\ ~neg_used /\ Exhausted
    /\ Len(chunks) >= 2 /\ nreads >= 2
    /\ self.buff # <<>> /\ Len(out) > 0

\* C4: read(-1) as the first and only call returns exactly P, and digest()
\* afterwards is the SHA-256 of P.
CE_C4 ==
    (nreads = 1 /\ call.size < 0 /\ ~call.exc)
        => (call.ret = Payload /\ digest(self) = Sha256(Payload))

\* C5: every call of read conserves bytes: accumulator before the call
\* followed by the bytes fetched during it = bytes returned followed by the
\* accumulator after it.
CE_C5 ==
    (nreads > 0 /\ ~call.exc)
        => call.buff_before \o call.fetched = call.ret \o self.buff

\* C6: the running progress never decreases from one read to the next and
\* is at most 100 (Cap, in the model's units) in every reachable state.
Thm_C6 ==
    /\ [](self.progress <= Cap)
    /\ [][self'.progress >= self.progress]_vars

\* a read repeated after end-of-stream whose bytes would carry the progress
\* past 100: the cap is what holds it there
Wit_C6 ==
    /\ nreads >= 2 /\ self.size > 0 /\ ~call.exc
    /\ call.progress_before + 100 * Len(call.ret) > Cap
    /\ self.progress = Cap

\* the reported percentages: the first at least 1 point above 0, each at
\* least 1 point above the one before, none above 100; so at most 100 of them
LogInv ==
    /\ \A i \in 1..Len(log) :
          /\ log[i] <= Cap
          /\ log[i] - (IF i = 1 THEN 0 ELSE log[i - 1]) >= OnePoint
    /\ self.last_progress = (IF log = <<>> THEN 0 ELSE log[Len(log)])
    /\ Len(log) * OnePoint <= self.last_progress
    /\ Len(log) <= 100

\* one call of report: it emits at most one percentage, the new progress, and
\* only on an advance of at least 1 point over the last reported value; the
\* marker moves only with an emission; the progress is updated either way
StepC7 ==
    ~call'.exc =>
        /\ self'.progress = Min(self.progress + 100 * Len(call'.ret), 100 * self'.size)
        /\ \/ /\ log' = log
              /\ self'.last_progress = self.last_progress
           \/ /\ log' = Append(log, self'.progress)
              /\ self'.progress - self.last_progress >= self'.size
              /\ self'.last_progress = self'.progress

\* C7: a report is emitted only on an advance of at least 1 point over the
\* last reported value (0 at first); the last-reported marker changes only
\* with an emission while the running progress is updated on every report
\* call; the reported percentages are strictly increasing and at most 100.
Thm_C7 == [](LogInv) /\ [][StepC7]_vars

\* reports were emitted, and the last call advanced the progress by less
\* than a point without emitting: the progress is ahead of the marker
Wit_C7 ==
    /\ Len(log) >= 2 /\ ~call.exc
    /\ log = call.log_before
    /\ self.progress > call.progress_before
    /\ self.progress > self.last_progress

\* the number of bytes pulled from the source so far
Pulled ==
    IF self.chunk_iter.open
    THEN Len(Payload) - Len(join(self.chunk_iter.rest))
    ELSE 0

\* C13 as stated: the running progress is min(100, 100 * bytes pulled from
\* the source so far / declared total size) in every reachable state.
CE_C13 == self.progress = Min(100 * Pulled, Cap)

\* C13, amended: the running progress is min(100, 100 * bytes returned by
\* read so far / declared total size) in every reachable state: progress
\* follows the bytes handed to the consumer, not the chunks pulled.
Thm_C13 == self.progress = Min(100 * Len(out), Cap)

\* more bytes have been pulled than returned, and the progress is short of 100
Wit_C13 ==
    /\ Len(out) > 0 /\ Pulled > Len(out)
    /\ self.progress < Cap /\ self.progress > 0

\* C14: read(-1) after non-negative reads that left bytes in the accumulator
\* (none of them at end-of-stream) returns those bytes followed by all remaining source bytes and leaves the
\* accumulator empty.
CE_C14 ==
    (call.size < 0 /\ ~call.exc /\ ~eof_hit /\ call.buff_before # <<>>)
        => /\ call.ret = call.buff_before \o call.fetched
           /\ self.buff = <<>>

\* C19: for a response with content-length 0, read(n) returns the empty byte
\* string without raising for any n.
CE_C19 ==
    (nreads > 0 /\ self.size = 0)
        => (~call.exc /\ call.ret = <<>>)

\* -------------------------------------------------------------- flow claims
InWrites(w) == \E i \in 1..Len(writes) : writes[i] = w

RECURSIVE Fields(_, _)
\* the '-'-separated fields of a version; cur is the field being read
Fields(t, cur) ==
    IF t = <<>> THEN <<cur>>
    ELSE IF Head(t) = "-" THEN <<cur>> \o Fields(Tail(t), <<>>)
    ELSE Fields(Tail(t), Append(cur, Head(t)))

DropZero(f) == IF f # <<>> /\ Head(f) = "0" THEN Tail(f) ELSE f

RECURSIVE Dotted(_)
\* the fields after the first, each behind a '.' and less one leading zero
Dotted(fs) ==
    IF fs = <<>> THEN <<>>
    ELSE <<".">> \o DropZero(Head(fs)) \o Dotted(Tail(fs))

TagOf(version) ==
    LET fs == Fields(version, <<>>)
    IN  <<"v">> \o Head(fs) \o Dotted(Tail(fs))

\* C8 as stated: the tag is 'v' and the version with '.' for '-', every
\* digit kept: "2023-05-03-1" gives v2023.05.03.1, "2023-05-03" v2023.05.03.
CE_C8 ==
    semver # <<>> =>
        /\ Len(semver) = Len(new_version) + 1
        /\ new_version = V_2023_05_03_1 => semver = <<"v", "2", "0", "2", "3", ".", "0", "5", ".", "0", "3", ".", "1">>
        /\ new_version = V_2023_05_03 => semver = <<"v", "2", "0", "2", "3", ".", "0", "5", ".", "0", "3">>

\* C8, amended: the tag is 'v' and the version with each '-' replaced by
\* '.', where a field after the first loses one leading zero:
\* "2023-05-03-1" gives v2023.5.3.1 and "2023-05-03" gives v2023.5.3.
Thm_C8 ==
    semver # <<>> =>
        /\ semver = TagOf(new_version)
        /\ new_version = V_2023_05_03_1 => semver = <<"v", "2", "0", "2", "3", ".", "5", ".", "3", ".", "1">>
        /\ new_version = V_2023_05_03 => semver = <<"v", "2", "0", "2", "3", ".", "5", ".", "3">>

\* the tag of "2023-05-03-1" has been derived, created and pushed
Wit_C8 ==
    /\ new_version = V_2023_05_03_1
    /\ semver # <<>> /\ semver \in repo.origin_tags
    /\ InWrites("push_tags")

LastRun == history[Len(history)]

\* C9 as stated: a run that follows another against the same upstream feed
\* performs no write at all.
CE_C9 == history # <<>> => writes = <<>>

\* C9, amended: a run that follows a run which ended with exit status 0,
\* against the same upstream feed, performs no write at all.
Thm_C9 == (history # <<>> /\ LastRun.exit_code = 0) => writes = <<>>

\* a first run that wrote the marker, the tag, the release and an asset and
\* ended with status 0, followed by a second run that has ended too
Wit_C9 ==
    /\ Len(history) = 1 /\ pc = "exited" /\ exit_code = 0
    /\ LastRun.exit_code = 0
    /\ \E i \in 1..Len(LastRun.writes) : LastRun.writes[i] = "write_version"
    /\ \E i \in 1..Len(LastRun.writes) : LastRun.writes[i] = "create_release"
    /\ \E i \in 1..Len(LastRun.writes) : LastRun.writes[i] = "upload_image"

UploadedMismatch ==
    InWrites("upload_image") /\ buffer_digest # download_hash

\* C10: once the image asset is uploaded and the buffer's digest differs from
\* the declared one, the run can only delete that asset and exit with status
\* 1: it never uploads the checksum asset, and when it has exited the asset
\* is deleted, the exit status is 1 and the release holds no image asset.
Thm_C10 ==
    UploadedMismatch =>
        /\ ~InWrites("upload_hash")
        /\ pc \in {"check_digest", "delete_asset", "exited"}
        /\ pc = "exited" =>
              /\ exit_code = 1
              /\ InWrites("delete_asset")
              /\ image_asset \cap gh_repo[semver].assets = {}
              /\ ~\E a \in gh_repo[semver].assets : IsHashAsset(a) /\ a \notin assets

\* a run that uploaded a corrupted transfer has exited
Wit_C10 ==
    /\ UploadedMismatch /\ pc = "exited"
    /\ image_asset = {ImageAsset(Corrupted)}

\* ------------------------------------------------ flow claims, continued
Count(w) == Cardinality({i \in 1..Len(writes) : writes[i] = w})
Tag == Semver(new_version)
VersionIn(st) ==
    IF st.repo.file.exists THEN strip(st.repo.file.text) ELSE <<>>

\* upstream is newer than the marker, and there is no tag and no release
FreshAt(st) ==
    /\ StrLess(VersionIn(st), new_version)
    /\ Tag \notin st.repo.tags
    /\ Tag \notin DOMAIN st.gh_repo

\* marker written, committed and pushed; tag created and pushed; release
\* there with the right image and the checksum
Reconciled ==
    /\ repo.file = File(new_version)
    /\ repo.head = repo.file /\ repo.origin = repo.file
    /\ Tag \in repo.tags /\ Tag \in repo.origin_tags
    /\ Tag \in DOMAIN gh_repo
    /\ gh_repo[Tag].assets = {ImageAsset(Image), HashAsset}

AllWrites ==
    <<"write_version", "commit", "push", "create_tag", "push_tags",
      "create_release", "upload_image", "upload_hash">>

Thm_C12 ==
    /\ (pc \notin {"idle", "read_version"} /\ StrLess(new_version, repo_version))
         => /\ pc \in {"check_newer", "exited"}
            /\ writes = <<>>
            /\ repo = start.repo /\ gh_repo = start.gh_repo
            /\ (pc = "exited" /\ ending = "die") => exit_code = 0
    /\ (/\ pc = "exited" /\ ending \in {"die", "exception"}
        /\ ~(ending = "die" /\ StrLess(new_version, repo_version)))
         => exit_code = 1

\* the run found the marker ahead of upstream and has exited through die
Wit_C12 ==
    /\ pc = "exited" /\ ending = "die" /\ exit_code = 0
    /\ StrLess(new_version, repo_version)

\* the unindented lines of the notes that start with the version
HeadersOf(lines, version) ==
    {i \in 1..Len(lines) :
        ~startswith(lines[i], <<" ">>) /\ startswith(lines[i], version)}

\* the indented lines after line i, up to the next line that is not
\* indented, each with its line end
Paragraph(lines, i) ==
    LET stops == {k \in (i + 1)..Len(lines) : ~startswith(lines[k], <<" ">>)}
        stop == IF stops = {} THEN Len(lines) + 1
                ELSE CHOOSE k \in stops : \A j \in stops : k <= j
    IN  join([k \in 1..(stop - 1 - i) |-> lines[i + k] \o <<"\n">>])

\* C15 as stated: the body of a release this run created is the paragraph
\* under the header that starts with the version, wherever it is in the text.
CE_C15 ==
    (InWrites("create_release") /\ HeadersOf(notes_text, new_version) # {})
        => LET h == CHOOSE i \in HeadersOf(notes_text, new_version) :
                       \A j \in HeadersOf(notes_text, new_version) : i <= j
           IN  gh_repo[semver].body = Paragraph(notes_text, h)

\* C15, amended: the body of a release this run created is the paragraph
\* under the first line of the text when that line starts with the version
\* (the indented lines after it, up to the next non-indented line), and
\* empty when the first line does not start with the version.
Thm_C15 ==
    InWrites("create_release")
        => gh_repo[semver].body =
              (IF startswith(strip(notes_text[1]), new_version)
               THEN Paragraph(notes_text, 1)
               ELSE <<>>)

\* a release was created from notes whose first section is the version's
\* and is followed by another section
Wit_C15 ==
    /\ InWrites("create_release")
    /\ gh_repo[semver].body # <<>>
    /\ Len(gh_repo[semver].body) < Len(TakeAllLines(Tail(notes_text)))

TagExisted == Tag \in start.repo.tags

\* C16: after the tag lookup, (a) tag present and marker just changed: the
\* run has exited with status 1 and has created no tag, looked up or created
\* no release and uploaded nothing; (b) tag absent: it is created once and
\* pushed once; (c) tag present and marker unchanged: the run goes on and
\* creates no tag.
Thm_C16 ==
    semver # <<>> =>
        /\ (TagExisted /\ repo_changed)
             => /\ pc = "exited" /\ exit_code = 1 /\ ending = "die"
                /\ ~release
                /\ \A w \in {"create_tag", "push_tags", "create_release",
                             "upload_image", "upload_hash"} : ~InWrites(w)
                /\ gh_repo = start.gh_repo /\ repo.tags = start.repo.tags
        /\ ~TagExisted
             => /\ Count("create_tag") = (IF pc = "create_tag" THEN 0 ELSE 1)
                /\ Count("push_tags") =
                      (IF pc \in {"create_tag", "push_tags"} THEN 0 ELSE 1)
                /\ pc # "create_tag" => semver \in repo.tags
                /\ pc \notin {"create_tag", "push_tags"} => semver \in repo.origin_tags
        /\ (TagExisted /\ ~repo_changed)
             => /\ Count("create_tag") = 0 /\ Count("push_tags") = 0
                /\ pc \notin {"create_tag", "push_tags"}
                /\ (pc = "exited" /\ ending = "die") => InWrites("delete_asset")

\* the marker was bumped in a run that then found the tag already there
Wit_C16 ==
    /\ semver # <<>> /\ TagExisted /\ repo_changed
    /\ InWrites("push") /\ pc = "exited"

\* C17: a run that starts with upstream newer than the marker, no tag and no
\* release is aborted by a failure; the re-run against the same upstream
\* runs to its end without failure; then everything is reconciled and the
\* published image matches the declared digest.
CE_C17 ==
    (/\ Len(history) = 1
     /\ LastRun.ending = "exception" /\ FreshAt(LastRun.start)
     /\ pc = "exited" /\ ending = "end")
        => Reconciled

Images(t) == {a \in gh_repo[t].assets : a.name = "image.zip"}
Hashes(t) == {a \in gh_repo[t].assets : a.name = "image.zip.sha256"}

\* one step of a run: an upload only of a kind the release does not hold,
\* a removal only by the digest-mismatch path, of the image just uploaded
StepC18 ==
    /\ (Len(writes') > Len(writes) /\ writes'[Len(writes')] = "upload_image")
          => Images(semver) = {}
    /\ (Len(writes') > Len(writes) /\ writes'[Len(writes')] = "upload_hash")
          => Hashes(semver) = {}
    /\ \A t \in DOMAIN gh_repo :
          /\ t \in DOMAIN gh_repo'
          /\ gh_repo[t].assets \ gh_repo'[t].assets # {}
                => /\ pc = "delete_asset" /\ t = semver
                   /\ gh_repo[t].assets \ gh_repo'[t].assets = image_asset
                   /\ writes[Len(writes)] = "upload_image"
                   /\ buffer_digest # download_hash

\* C18: whatever runs came before, a release holds at most one image asset
\* and at most one checksum asset; a run never uploads a kind that is
\* present, and deletes only the image it has just uploaded, on a mismatch.
Thm_C18 ==
    /\ [](\A t \in DOMAIN gh_repo :
             Cardinality(Images(t)) <= 1 /\ Cardinality(Hashes(t)) <= 1)
    /\ [][StepC18]_vars

\* a run deleted its corrupted upload, and the next run has uploaded the
\* image again and the checksum
Wit_C18 ==
    /\ Len(history) >= 1 /\ pc = "exited"
    /\ \E i \in 1..Len(LastRun.writes) : LastRun.writes[i] = "delete_asset"
    /\ InWrites("upload_image") /\ InWrites("upload_hash")
    /\ Cardinality(Images(semver)) = 1 /\ Cardinality(Hashes(semver)) = 1

Init == InitBuffer /\ FlowIdle

Next == \E size \in ReadSizes(Payload) : Read(size)

Spec == Init /\ [][Next]_vars

====
